---- MODULE Spec2Model ----
(***************************************************************************)
(* PayAgentHook (contracts/src/PayAgentHook.sol): per-pool fee governance   *)
(* and swap analytics of a Uniswap v4 hook.  State is the contract's        *)
(* storage mappings and the chain's block number; every external entry      *)
(* point is one action.  A call that reverts leaves storage as it was; the  *)
(* variable last records the most recent call and what it answered.         *)
(***************************************************************************)
EXTENDS Integers, FiniteSets, Sequences, TLC

\* ---------------------------------------------------------------- constants
MAX_FEE == 10000
DEFAULT_FEE == 3000
TIMELOCK_BLOCKS == 150

\* uint24: the type of every fee the contract stores or returns.
UINT24_MAX == 16777215

\* ------------------------------------------------------------------- bounds
\* Last block number the model lets the chain reach.
MaxBlock == 301
\* Largest SwapParams.amountSpecified (int256 in the source, scaled down).
MaxAmount == 1
\* Largest value of an analytics counter (uint256 in the source, scaled down).
MaxCount == 1

\* --------------------------------------------------------------- the domain
Pools == {"p1", "p2"}

\* address(0)
ZERO == "0x0"
\* Externally owned accounts that call the contract.
Principals == {"A", "B", "C"}
Addresses == Principals \cup {ZERO}

\* Strategy handles an admin can store: address(0), a deployed IFeeStrategy
\* contract, and an address with no code behind it.
STRATEGY_CONTRACT == "S"
STRATEGY_NOCODE == "E"
StrategyHandles == {ZERO, STRATEGY_CONTRACT, STRATEGY_NOCODE}

\* What one invocation of a deployed strategy can do: return a 32-byte word,
\* revert, run out of the 100_000 gas it is given, or return fewer than 32
\* bytes.  The word may be anything; values above uint24 are not a uint24.
StrategyWords == {0, 500, 999999, UINT24_MAX + 1}
StrategyOutcomes ==
    [kind : {"return"}, word : StrategyWords]
        \cup [kind : {"revert", "outOfGas", "shortReturn"}, word : {0}]

\* Fees an admin tries to queue: none, the ceiling, and one above the ceiling.
FeeInputs == {0, MAX_FEE, MAX_FEE + 1}

\* Two's complement: the range of amountSpecified has one more negative value.
MinAmount == -(MaxAmount + 1)
Amounts == MinAmount .. MaxAmount

\* BalanceDelta sides (int128 in the source), scaled down.
DeltaSides == {-1, 0, 1}

\* Modulus of the analytics counters.
CounterMod == MaxCount + 1

\* Block advances between calls.
BlockSteps == {TIMELOCK_BLOCKS - 1, TIMELOCK_BLOCKS}

VARIABLES
    poolAdmin,          \* mapping(PoolId => address)
    pendingPoolAdmin,   \* mapping(PoolId => address)
    poolStrategy,       \* mapping(PoolId => IFeeStrategy)
    swapCount,          \* mapping(PoolId => uint256)
    totalVolume,        \* mapping(PoolId => uint256)
    poolFeeOverride,    \* mapping(PoolId => uint24)
    pendingFee,         \* mapping(PoolId => uint24)
    feeReadyBlock,      \* mapping(PoolId => uint256)
    blockNumber,        \* block.number
    last,               \* the most recent call: what was called and what it answered
    queued,             \* history: the queued, not yet finalized setPoolFee of each pool
    formerAdmins,       \* history: the admins acceptPoolAdmin has replaced, per pool
    proposed,           \* history: the new admins proposed since the last accepted
                        \* transfer of each pool
    latestProposal      \* history: the latest successful transferPoolAdmin of each
                        \* pool that has not been accepted yet: who made it, for whom

storage == <<poolAdmin, pendingPoolAdmin, poolStrategy, swapCount, totalVolume,
             poolFeeOverride, pendingFee, feeReadyBlock>>
history == <<queued, formerAdmins, proposed, latestProposal>>
vars == <<poolAdmin, pendingPoolAdmin, poolStrategy, swapCount, totalVolume,
          poolFeeOverride, pendingFee, feeReadyBlock, blockNumber, last, queued,
          formerAdmins, proposed, latestProposal>>

NoCall ==
    [op |-> "none", pool |-> "p1", caller |-> ZERO, err |-> "ok", ret |-> 0,
     strat |-> "none"]
NoQueue == [at |-> 0, fee |-> 0, byAdmin |-> FALSE]
NoProposal == [by |-> ZERO, newAdmin |-> ZERO]

\* A call that does not consult the pool's strategy.
Call(op, p, c, err, ret) ==
    [op |-> op, pool |-> p, caller |-> c, err |-> err, ret |-> ret, strat |-> "none"]

\* A call that resolves the fee; strat is what the strategy invocation did.
FeeCall(op, p, err, ret, strat) ==
    [op |-> op, pool |-> p, caller |-> ZERO, err |-> err, ret |-> ret, strat |-> strat]

Init ==
    /\ poolAdmin = [p \in Pools |-> ZERO]
    /\ pendingPoolAdmin = [p \in Pools |-> ZERO]
    /\ poolStrategy = [p \in Pools |-> ZERO]
    /\ swapCount = [p \in Pools |-> 0]
    /\ totalVolume = [p \in Pools |-> 0]
    /\ poolFeeOverride = [p \in Pools |-> 0]
    /\ pendingFee = [p \in Pools |-> 0]
    /\ feeReadyBlock = [p \in Pools |-> 0]
    /\ blockNumber = 1
    /\ last = NoCall
    /\ queued = [p \in Pools |-> NoQueue]
    /\ formerAdmins = [p \in Pools |-> {}]
    /\ proposed = [p \in Pools |-> {}]
    /\ latestProposal = [p \in Pools |-> NoProposal]

\* ------------------------------------------------------------ fee resolution
\* A returned 0 taken for "no answer": the chain falls through on it.
tryGetFeeZeroIsNone(strategy, outcome) ==
    IF strategy = STRATEGY_NOCODE THEN [tag |-> "abort", fee |-> 0]
    ELSE IF outcome.kind \in {"revert", "outOfGas"} THEN [tag |-> "caught", fee |-> 0]
    ELSE IF outcome.kind = "shortReturn" THEN [tag |-> "abort", fee |-> 0]
    ELSE IF outcome.word > UINT24_MAX THEN [tag |-> "abort", fee |-> 0]
    ELSE IF outcome.word = 0 THEN [tag |-> "caught", fee |-> 0]
    ELSE [tag |-> "value", fee |-> outcome.word]

\* try strategy.getFee{gas: 100_000}(...) returns (uint24 strategyFee) {...} catch {}
\* "value": the call returned a uint24; "caught": the callee failed and the catch
\* clause swallowed it; "abort": the failure is the caller's own (no code at the
\* address, or return data that does not decode as a uint24) and try/catch does
\* not cover it.
tryGetFee(strategy, outcome) ==
    IF strategy = STRATEGY_NOCODE THEN [tag |-> "abort", fee |-> 0]
    ELSE IF outcome.kind \in {"revert", "outOfGas"} THEN [tag |-> "caught", fee |-> 0]
    ELSE IF outcome.kind = "shortReturn" THEN [tag |-> "abort", fee |-> 0]
    ELSE IF outcome.word > UINT24_MAX THEN [tag |-> "abort", fee |-> 0]
    ELSE [tag |-> "value", fee |-> outcome.word]

\* The cap forgotten: the strategy's value is passed on as it is.
capFeeUncapped(strategyFee) == strategyFee

\* strategyFee > MAX_FEE ? MAX_FEE : strategyFee
capFee(strategyFee) == IF strategyFee > MAX_FEE THEN MAX_FEE ELSE strategyFee

\* The override ignored: the chain always ends in DEFAULT_FEE.
overrideOrDefaultIgnored(overrideFee) == DEFAULT_FEE

\* Steps 2 and 3 of the chain: manual override, then DEFAULT_FEE.
overrideOrDefault(overrideFee) == IF overrideFee # 0 THEN overrideFee ELSE DEFAULT_FEE

\* _resolveFee on explicit storage values: [err, fee].
resolveFeeOf(strategy, overrideFee, outcome) ==
    IF strategy # ZERO
    THEN LET r == tryGetFee(strategy, outcome) IN
         CASE r.tag = "value" -> [err |-> "ok", fee |-> capFee(r.fee)]
           [] r.tag = "abort" -> [err |-> "Revert", fee |-> 0]
           [] OTHER -> [err |-> "ok", fee |-> overrideOrDefault(overrideFee)]
    ELSE [err |-> "ok", fee |-> overrideOrDefault(overrideFee)]

\* What the invocation of the strategy did: "none" when no strategy is attached,
\* "noCode" when the handle has no code behind it, else the callee's behaviour.
invocation(strategy, outcome) ==
    IF strategy = ZERO THEN "none"
    ELSE IF strategy = STRATEGY_NOCODE THEN "noCode"
    ELSE outcome.kind

\* _resolveFee(poolId, key, params) in the current state.
resolveFee(p, outcome) == resolveFeeOf(poolStrategy[p], poolFeeOverride[p], outcome)

\* ------------------------------------------------------------ pool lifecycle
\* _afterInitialize: the PoolManager reports that `sender` initialized pool p.
\* The registration check left out: a pool can be registered again.
afterInitializeErrAgain(p) == "ok"

afterInitializeErr(p) == IF poolAdmin[p] # ZERO THEN "PoolAlreadyRegistered" ELSE "ok"

afterInitialize(p, sender) ==
    LET err == afterInitializeErr(p) IN
    /\ last' = Call("afterInitialize", p, sender, err, 0)
    /\ poolAdmin' = IF err = "ok" THEN [poolAdmin EXCEPT ![p] = sender] ELSE poolAdmin
    /\ UNCHANGED <<pendingPoolAdmin, poolStrategy, swapCount, totalVolume,
                   poolFeeOverride, pendingFee, feeReadyBlock, blockNumber, queued,
                   formerAdmins, proposed, latestProposal>>

\* The modifier left off: anyone passes.
onlyPoolAdminAnyone(p, c) == TRUE

\* The pool key dropped from the check: the admin of any pool passes.
onlyPoolAdminOfAny(p, c) == \E q \in Pools : c = poolAdmin[q]

\* modifier onlyPoolAdmin(poolId)
onlyPoolAdmin(p, c) == c = poolAdmin[p]

\* ------------------------------------------------------- admin-gated calls
\* The modifier left off setPoolStrategy: anyone can attach or remove a strategy.
setPoolStrategyErrOpen(p, c) == "ok"

setPoolStrategyErr(p, c) == IF ~onlyPoolAdmin(p, c) THEN "Unauthorized" ELSE "ok"

setPoolStrategy(p, c, strategy) ==
    LET err == setPoolStrategyErr(p, c) IN
    /\ last' = Call("setPoolStrategy", p, c, err, 0)
    /\ poolStrategy' = IF err = "ok" THEN [poolStrategy EXCEPT ![p] = strategy]
                       ELSE poolStrategy
    /\ UNCHANGED <<poolAdmin, pendingPoolAdmin, swapCount, totalVolume,
                   poolFeeOverride, pendingFee, feeReadyBlock, blockNumber, queued,
                   formerAdmins, proposed, latestProposal>>

\* The ceiling check left out: any uint24 is queued.
setPoolFeeErrNoCeiling(p, c, fee) == IF ~onlyPoolAdmin(p, c) THEN "Unauthorized" ELSE "ok"

\* The ceiling tested before the caller: a fee too high is reported to anyone.
setPoolFeeErrCeilingFirst(p, c, fee) ==
    IF fee > MAX_FEE THEN "FeeTooHigh"
    ELSE IF ~onlyPoolAdmin(p, c) THEN "Unauthorized"
    ELSE "ok"

setPoolFeeErr(p, c, fee) ==
    IF ~onlyPoolAdmin(p, c) THEN "Unauthorized"
    ELSE IF fee > MAX_FEE THEN "FeeTooHigh"
    ELSE "ok"

\* What a successful setPoolFee overwrites: the pending fee and its ready block
\* as they were before the call (setPoolFee itself returns nothing).
NothingQueued == [fee |-> 0, readyBlock |-> 0]
overwritten(p) == [fee |-> pendingFee[p], readyBlock |-> feeReadyBlock[p]]

\* The delay left out: the queued fee is ready at once.
readyBlockOfNow(now) == now

\* uint256 readyBlock = block.number + TIMELOCK_BLOCKS
readyBlockOf(now) == now + TIMELOCK_BLOCKS

\* The checks moved behind the writes, and the revert not undoing them.
setPoolFeeWriteFirst(p, c, fee) ==
    LET err == setPoolFeeErr(p, c, fee) IN
    /\ last' = Call("setPoolFee", p, c, err,
                    IF err = "ok" THEN overwritten(p) ELSE NothingQueued)
    /\ pendingFee' = [pendingFee EXCEPT ![p] = fee]
    /\ feeReadyBlock' = [feeReadyBlock EXCEPT ![p] = readyBlockOf(blockNumber)]
    /\ queued' = [queued EXCEPT ![p] =
                     [at |-> blockNumber, fee |-> fee, byAdmin |-> (c = poolAdmin[p])]]
    /\ UNCHANGED <<poolAdmin, pendingPoolAdmin, poolStrategy, swapCount, totalVolume,
                   poolFeeOverride, blockNumber, formerAdmins, proposed, latestProposal>>

\* A second setPoolFee keeps the ready block of the first: the delay is not reset.
setPoolFeeKeepsDelay(p, c, fee) ==
    LET err == setPoolFeeErr(p, c, fee)
        readyBlock == IF feeReadyBlock[p] # 0 THEN feeReadyBlock[p]
                      ELSE readyBlockOf(blockNumber)
    IN
    /\ last' = Call("setPoolFee", p, c, err,
                    IF err = "ok" THEN overwritten(p) ELSE NothingQueued)
    /\ IF err = "ok"
       THEN /\ pendingFee' = [pendingFee EXCEPT ![p] = fee]
            /\ feeReadyBlock' = [feeReadyBlock EXCEPT ![p] = readyBlock]
            /\ queued' = [queued EXCEPT ![p] =
                             [at |-> blockNumber, fee |-> fee,
                              byAdmin |-> (c = poolAdmin[p])]]
       ELSE UNCHANGED <<pendingFee, feeReadyBlock, queued>>
    /\ UNCHANGED <<poolAdmin, pendingPoolAdmin, poolStrategy, swapCount, totalVolume,
                   poolFeeOverride, blockNumber, formerAdmins, proposed, latestProposal>>

setPoolFee(p, c, fee) ==
    LET err == setPoolFeeErr(p, c, fee)
        readyBlock == readyBlockOf(blockNumber)
    IN
    /\ last' = Call("setPoolFee", p, c, err,
                    IF err = "ok" THEN overwritten(p) ELSE NothingQueued)
    /\ IF err = "ok"
       THEN /\ pendingFee' = [pendingFee EXCEPT ![p] = fee]
            /\ feeReadyBlock' = [feeReadyBlock EXCEPT ![p] = readyBlock]
            /\ queued' = [queued EXCEPT ![p] =
                             [at |-> blockNumber, fee |-> fee,
                              byAdmin |-> (c = poolAdmin[p])]]
       ELSE UNCHANGED <<pendingFee, feeReadyBlock, queued>>
    /\ UNCHANGED <<poolAdmin, pendingPoolAdmin, poolStrategy, swapCount, totalVolume,
                   poolFeeOverride, blockNumber, formerAdmins, proposed, latestProposal>>

\* The zero test left out: a pool with nothing queued counts as ready.
finalizeTimelockedNoZeroTest(ready, now) == now < ready

\* Off by one: the ready block itself still counts as locked.
finalizeTimelockedOffByOne(ready, now) == ready = 0 \/ now <= ready

\* ready == 0 || block.number < ready
finalizeTimelocked(ready, now) == ready = 0 \/ now < ready

finalizePoolFeeErr(p) ==
    IF finalizeTimelocked(feeReadyBlock[p], blockNumber) THEN "FeeChangeTimelocked"
    ELSE "ok"

\* The pending state not cleared: the same queued fee can be finalized again.
finalizePoolFeeKeepsPending(p, c) ==
    LET err == finalizePoolFeeErr(p)
        newFee == pendingFee[p]
    IN
    /\ last' = Call("finalizePoolFee", p, c, err, 0)
    /\ IF err = "ok"
       THEN /\ poolFeeOverride' = [poolFeeOverride EXCEPT ![p] = newFee]
            /\ queued' = [queued EXCEPT ![p] = NoQueue]
       ELSE UNCHANGED <<poolFeeOverride, queued>>
    /\ UNCHANGED <<poolAdmin, pendingPoolAdmin, poolStrategy, swapCount, totalVolume,
                   pendingFee, feeReadyBlock, blockNumber, formerAdmins, proposed, latestProposal>>

\* finalizePoolFee put behind onlyPoolAdmin.
finalizePoolFeeAdminOnly(p, c) ==
    LET err == IF ~onlyPoolAdmin(p, c) THEN "Unauthorized" ELSE finalizePoolFeeErr(p)
        newFee == pendingFee[p]
    IN
    /\ last' = Call("finalizePoolFee", p, c, err, 0)
    /\ IF err = "ok"
       THEN /\ poolFeeOverride' = [poolFeeOverride EXCEPT ![p] = newFee]
            /\ pendingFee' = [pendingFee EXCEPT ![p] = 0]
            /\ feeReadyBlock' = [feeReadyBlock EXCEPT ![p] = 0]
            /\ queued' = [queued EXCEPT ![p] = NoQueue]
       ELSE UNCHANGED <<poolFeeOverride, pendingFee, feeReadyBlock, queued>>
    /\ UNCHANGED <<poolAdmin, pendingPoolAdmin, poolStrategy, swapCount, totalVolume,
                   blockNumber, formerAdmins, proposed, latestProposal>>

finalizePoolFee(p, c) ==
    LET err == finalizePoolFeeErr(p)
        newFee == pendingFee[p]
    IN
    /\ last' = Call("finalizePoolFee", p, c, err, 0)
    /\ IF err = "ok"
       THEN /\ poolFeeOverride' = [poolFeeOverride EXCEPT ![p] = newFee]
            /\ pendingFee' = [pendingFee EXCEPT ![p] = 0]
            /\ feeReadyBlock' = [feeReadyBlock EXCEPT ![p] = 0]
            /\ queued' = [queued EXCEPT ![p] = NoQueue]
       ELSE UNCHANGED <<poolFeeOverride, pendingFee, feeReadyBlock, queued>>
    /\ UNCHANGED <<poolAdmin, pendingPoolAdmin, poolStrategy, swapCount, totalVolume,
                   blockNumber, formerAdmins, proposed, latestProposal>>

\* A proposal of the admin to itself is refused.
transferPoolAdminErrNoSelf(p, c, newAdmin) ==
    IF ~onlyPoolAdmin(p, c) THEN "Unauthorized"
    ELSE IF newAdmin = ZERO \/ newAdmin = c THEN "ZeroAddress"
    ELSE "ok"

\* The modifier left off transferPoolAdmin: anyone can propose a new admin.
transferPoolAdminErrOpen(p, c, newAdmin) ==
    IF newAdmin = ZERO THEN "ZeroAddress" ELSE "ok"

\* A replaced admin keeps the right to propose.
transferPoolAdminErrFormer(p, c, newAdmin) ==
    IF ~onlyPoolAdmin(p, c) /\ c \notin formerAdmins[p] THEN "Unauthorized"
    ELSE IF newAdmin = ZERO THEN "ZeroAddress"
    ELSE "ok"

transferPoolAdminErr(p, c, newAdmin) ==
    IF ~onlyPoolAdmin(p, c) THEN "Unauthorized"
    ELSE IF newAdmin = ZERO THEN "ZeroAddress"
    ELSE "ok"

\* One-step transfer: the proposal already installs the new admin.
transferPoolAdminDirect(p, c, newAdmin) ==
    LET err == transferPoolAdminErr(p, c, newAdmin) IN
    /\ last' = Call("transferPoolAdmin", p, c, err, 0)
    /\ pendingPoolAdmin' = IF err = "ok" THEN [pendingPoolAdmin EXCEPT ![p] = newAdmin]
                           ELSE pendingPoolAdmin
    /\ poolAdmin' = IF err = "ok" THEN [poolAdmin EXCEPT ![p] = newAdmin] ELSE poolAdmin
    /\ proposed' = IF err = "ok" THEN [proposed EXCEPT ![p] = @ \cup {newAdmin}]
                   ELSE proposed
    /\ latestProposal' = IF err = "ok"
                         THEN [latestProposal EXCEPT ![p] =
                                  [by |-> c, newAdmin |-> newAdmin]]
                         ELSE latestProposal
    /\ UNCHANGED <<poolStrategy, swapCount, totalVolume, poolFeeOverride,
                   pendingFee, feeReadyBlock, blockNumber, queued, formerAdmins>>

transferPoolAdmin(p, c, newAdmin) ==
    LET err == transferPoolAdminErr(p, c, newAdmin) IN
    /\ last' = Call("transferPoolAdmin", p, c, err, 0)
    /\ pendingPoolAdmin' = IF err = "ok" THEN [pendingPoolAdmin EXCEPT ![p] = newAdmin]
                           ELSE pendingPoolAdmin
    /\ proposed' = IF err = "ok" THEN [proposed EXCEPT ![p] = @ \cup {newAdmin}]
                   ELSE proposed
    /\ latestProposal' = IF err = "ok"
                         THEN [latestProposal EXCEPT ![p] =
                                  [by |-> c, newAdmin |-> newAdmin]]
                         ELSE latestProposal
    /\ UNCHANGED <<poolAdmin, poolStrategy, swapCount, totalVolume, poolFeeOverride,
                   pendingFee, feeReadyBlock, blockNumber, queued, formerAdmins>>

\* Everyone proposed since the last transfer may accept, not only the latest.
acceptPoolAdminErrEverProposed(p, c) ==
    IF pendingPoolAdmin[p] = ZERO THEN "NoPendingAdmin"
    ELSE IF c \notin proposed[p] THEN "NotPendingAdmin"
    ELSE "ok"

\* The caller check left out: anyone can accept a pending transfer.
acceptPoolAdminErrAnyone(p, c) ==
    IF pendingPoolAdmin[p] = ZERO THEN "NoPendingAdmin" ELSE "ok"

acceptPoolAdminErr(p, c) ==
    LET pending == pendingPoolAdmin[p] IN
    IF pending = ZERO THEN "NoPendingAdmin"
    ELSE IF c # pending THEN "NotPendingAdmin"
    ELSE "ok"

\* pendingPoolAdmin not cleared: the same proposal can be accepted again.
acceptPoolAdminKeepsPending(p, c) ==
    LET pending == pendingPoolAdmin[p]
        err == acceptPoolAdminErr(p, c)
    IN
    /\ last' = Call("acceptPoolAdmin", p, c, err, 0)
    /\ IF err = "ok"
       THEN /\ poolAdmin' = [poolAdmin EXCEPT ![p] = pending]
            /\ formerAdmins' = [formerAdmins EXCEPT ![p] = @ \cup {poolAdmin[p]}]
            /\ proposed' = [proposed EXCEPT ![p] = {}]
            /\ latestProposal' = [latestProposal EXCEPT ![p] = NoProposal]
       ELSE UNCHANGED <<poolAdmin, formerAdmins, proposed, latestProposal>>
    /\ UNCHANGED <<pendingPoolAdmin, poolStrategy, swapCount, totalVolume,
                   poolFeeOverride, pendingFee, feeReadyBlock, blockNumber, queued>>

\* The takeover wipes the fee change the previous admin had queued.
acceptPoolAdminDropsQueue(p, c) ==
    LET pending == pendingPoolAdmin[p]
        err == acceptPoolAdminErr(p, c)
    IN
    /\ last' = Call("acceptPoolAdmin", p, c, err, 0)
    /\ IF err = "ok"
       THEN /\ poolAdmin' = [poolAdmin EXCEPT ![p] = pending]
            /\ pendingPoolAdmin' = [pendingPoolAdmin EXCEPT ![p] = ZERO]
            /\ formerAdmins' = [formerAdmins EXCEPT ![p] = @ \cup {poolAdmin[p]}]
            /\ proposed' = [proposed EXCEPT ![p] = {}]
            /\ latestProposal' = [latestProposal EXCEPT ![p] = NoProposal]
            /\ pendingFee' = [pendingFee EXCEPT ![p] = 0]
            /\ feeReadyBlock' = [feeReadyBlock EXCEPT ![p] = 0]
            /\ queued' = [queued EXCEPT ![p] = NoQueue]
       ELSE UNCHANGED <<poolAdmin, pendingPoolAdmin, formerAdmins, proposed,
                        latestProposal, pendingFee, feeReadyBlock, queued>>
    /\ UNCHANGED <<poolStrategy, swapCount, totalVolume, poolFeeOverride, blockNumber>>

acceptPoolAdmin(p, c) ==
    LET pending == pendingPoolAdmin[p]
        err == acceptPoolAdminErr(p, c)
    IN
    /\ last' = Call("acceptPoolAdmin", p, c, err, 0)
    /\ IF err = "ok"
       THEN /\ poolAdmin' = [poolAdmin EXCEPT ![p] = pending]
            /\ pendingPoolAdmin' = [pendingPoolAdmin EXCEPT ![p] = ZERO]
            /\ formerAdmins' = [formerAdmins EXCEPT ![p] = @ \cup {poolAdmin[p]}]
            /\ proposed' = [proposed EXCEPT ![p] = {}]
            /\ latestProposal' = [latestProposal EXCEPT ![p] = NoProposal]
       ELSE UNCHANGED <<poolAdmin, pendingPoolAdmin, formerAdmins, proposed, latestProposal>>
    /\ UNCHANGED <<poolStrategy, swapCount, totalVolume, poolFeeOverride, pendingFee,
                   feeReadyBlock, blockNumber, queued>>

\* ---------------------------------------------------------------- accessors
\* A sticky failure: once the strategy has failed, the next resolution does not
\* ask it again.
getEffectiveFeeSticky(p, outcome) ==
    LET sticky == /\ last.op \in {"getEffectiveFee", "beforeSwap"} /\ last.pool = p
                  /\ last.strat \in {"revert", "outOfGas"}
        r == IF sticky
             THEN [err |-> "ok", fee |-> overrideOrDefault(poolFeeOverride[p])]
             ELSE resolveFee(p, outcome)
    IN
    /\ last' = FeeCall("getEffectiveFee", p, r.err, r.fee,
                       invocation(poolStrategy[p], outcome))
    /\ UNCHANGED <<poolAdmin, pendingPoolAdmin, poolStrategy, swapCount, totalVolume,
                   poolFeeOverride, pendingFee, feeReadyBlock, blockNumber, queued,
                   formerAdmins, proposed, latestProposal>>

getEffectiveFee(p, outcome) ==
    LET r == resolveFee(p, outcome) IN
    /\ last' = FeeCall("getEffectiveFee", p, r.err, r.fee,
                       invocation(poolStrategy[p], outcome))
    /\ UNCHANGED <<poolAdmin, pendingPoolAdmin, poolStrategy, swapCount, totalVolume,
                   poolFeeOverride, pendingFee, feeReadyBlock, blockNumber, queued,
                   formerAdmins, proposed, latestProposal>>

\* isReady one block late: the ready block itself does not count.
pendingFeeInfoLate(p) ==
    [fee |-> pendingFee[p], readyBlock |-> feeReadyBlock[p],
     isReady |-> (feeReadyBlock[p] > 0 /\ blockNumber > feeReadyBlock[p])]

\* isReady = readyBlock > 0 && block.number >= readyBlock
pendingFeeInfo(p) ==
    [fee |-> pendingFee[p], readyBlock |-> feeReadyBlock[p],
     isReady |-> (feeReadyBlock[p] > 0 /\ blockNumber >= feeReadyBlock[p])]

getPendingFeeInfo(p) ==
    /\ last' = Call("getPendingFeeInfo", p, ZERO, "ok", pendingFeeInfo(p))
    /\ UNCHANGED <<poolAdmin, pendingPoolAdmin, poolStrategy, swapCount, totalVolume,
                   poolFeeOverride, pendingFee, feeReadyBlock, blockNumber, queued,
                   formerAdmins, proposed, latestProposal>>

\* ------------------------------------------------------------ hook callbacks
\* params.amountSpecified > 0 ? uint256(amountSpecified) : uint256(-amountSpecified)
\* The negation is checked arithmetic: it panics on the most negative value.
amountInOf(amountSpecified) ==
    IF amountSpecified > 0 THEN [err |-> "ok", v |-> amountSpecified]
    ELSE IF amountSpecified = MinAmount THEN [err |-> "Panic", v |-> 0]
    ELSE [err |-> "ok", v |-> -amountSpecified]

\* The counter bumped twice per swap.
bumpCountTwice(n) == (n + 2) % CounterMod

\* unchecked { swapCount[poolId]++; }
bumpCount(n) == (n + 1) % CounterMod

\* _beforeSwap: the inherited hook (super._beforeSwap) resolves the fee through
\* _getFee, then the override computes amountIn and bumps the counter.  ret is
\* the fee the swap is charged, as _getFee returns it.
beforeSwap(p, amountSpecified, outcome) ==
    LET r == resolveFee(p, outcome)
        a == amountInOf(amountSpecified)
        err == IF r.err # "ok" THEN r.err ELSE a.err
    IN
    /\ last' = FeeCall("beforeSwap", p, err, IF err = "ok" THEN r.fee ELSE 0,
                       invocation(poolStrategy[p], outcome))
    /\ swapCount' = IF err = "ok" THEN [swapCount EXCEPT ![p] = bumpCount(swapCount[p])]
                    ELSE swapCount
    /\ UNCHANGED <<poolAdmin, pendingPoolAdmin, poolStrategy, totalVolume,
                   poolFeeOverride, pendingFee, feeReadyBlock, blockNumber, queued,
                   formerAdmins, proposed, latestProposal>>

\* The sign ignored: the magnitude of whichever side is not zero.
volumeInOfAnySign(amount0, amount1) ==
    IF amount0 # 0 THEN (IF amount0 > 0 THEN amount0 ELSE -amount0)
    ELSE IF amount1 > 0 THEN amount1 ELSE -amount1

\* Volume = the amount entering the pool (the positive side).
volumeInOf(amount0, amount1) ==
    IF amount0 > 0 THEN amount0
    ELSE IF amount1 > 0 THEN amount1
    ELSE 0

\* unchecked { totalVolume[poolId] += volumeIn; }
addVolume(total, volumeIn) == (total + volumeIn) % CounterMod

\* _afterSwap never reverts; ret is what the PoolManager passed in (swapDelta)
\* and the amountIn the VolumeUpdated event reports.
afterSwap(p, amount0, amount1) ==
    LET volumeIn == volumeInOf(amount0, amount1) IN
    /\ last' = Call("afterSwap", p, ZERO, "ok",
                    [amount0 |-> amount0, amount1 |-> amount1, volumeIn |-> volumeIn])
    /\ totalVolume' = [totalVolume EXCEPT ![p] = addVolume(totalVolume[p], volumeIn)]
    /\ UNCHANGED <<poolAdmin, pendingPoolAdmin, poolStrategy, swapCount,
                   poolFeeOverride, pendingFee, feeReadyBlock, blockNumber, queued,
                   formerAdmins, proposed, latestProposal>>

\* -------------------------------------------------------------- environment
\* The chain produces blocks between calls.
rollBlock(d) ==
    /\ blockNumber + d <= MaxBlock
    /\ blockNumber' = blockNumber + d
    /\ last' = NoCall
    /\ UNCHANGED <<poolAdmin, pendingPoolAdmin, poolStrategy, swapCount, totalVolume,
                   poolFeeOverride, pendingFee, feeReadyBlock, queued, formerAdmins,
                   proposed, latestProposal>>

\* One step of the system with its callers and inputs drawn from the given sets.
Step(PS, CS, IS, NS, HS, FS, OS, AS, DS) ==
    \/ \E p \in PS, c \in IS : afterInitialize(p, c)
    \/ \E p \in PS, c \in CS, s \in HS : setPoolStrategy(p, c, s)
    \/ \E p \in PS, c \in CS, f \in FS : setPoolFee(p, c, f)
    \/ \E p \in PS, c \in CS : finalizePoolFee(p, c)
    \/ \E p \in PS, c \in CS, n \in NS : transferPoolAdmin(p, c, n)
    \/ \E p \in PS, c \in CS : acceptPoolAdmin(p, c)
    \/ \E p \in PS, o \in OS : getEffectiveFee(p, o)
    \/ \E p \in PS : getPendingFeeInfo(p)
    \/ \E p \in PS, a \in AS, o \in OS : beforeSwap(p, a, o)
    \/ \E p \in PS, d \in DS : afterSwap(p, d[1], d[2])
    \/ \E d \in BlockSteps : rollBlock(d)

\* Fee governance of one pool under every strategy behaviour: A registers the
\* pool and may hand it over to B, who is an outsider until then.
Next ==
    Step({"p1"}, {"A", "B"}, {"A"}, {ZERO, "B"}, StrategyHandles, FeeInputs,
         StrategyOutcomes, Amounts, {<<-1, 0>>, <<0, 0>>})

Spec == Init /\ [][Next]_vars

\* Admin governance of one pool: either of two principals registers it and the
\* role moves between them; C is an outsider.
NextAdmin ==
    Step({"p1"}, Principals, {"A", "B"}, {ZERO, "A", "B"}, {ZERO, STRATEGY_CONTRACT},
         {100, MAX_FEE + 1}, StrategyOutcomes, {1}, {<<-1, 0>>})

SpecAdmin == Init /\ [][NextAdmin]_vars

\* Swap analytics of one pool: every settlement delta, every amountSpecified,
\* a strategy that answers or reverts.
NextSwap ==
    Step({"p1"}, {"A"}, {"A"}, {ZERO}, {ZERO, STRATEGY_CONTRACT}, {0},
         [kind : {"return"}, word : {500}] \cup [kind : {"revert"}, word : {0}],
         Amounts, DeltaSides \X DeltaSides)

SpecSwap == Init /\ [][NextSwap]_vars

\* Two pools side by side: A registers both and may hand p1 over to B, so that
\* the admins of the two pools differ.  Every state-changing entry point is
\* called on either pool.
NextPools ==
    \/ \E p \in Pools : afterInitialize(p, "A")
    \/ \E p \in Pools, c \in {"A", "B"} : setPoolStrategy(p, c, STRATEGY_CONTRACT)
    \/ \E p \in Pools, c \in {"A", "B"} : setPoolFee(p, c, MAX_FEE)
    \/ \E p \in Pools : finalizePoolFee(p, "B")
    \/ \E p \in Pools : transferPoolAdmin(p, "A", IF p = "p1" THEN "B" ELSE ZERO)
    \/ \E p \in Pools : acceptPoolAdmin(p, "B")
    \/ \E p \in Pools : beforeSwap(p, 1, [kind |-> "return", word |-> 500])
    \/ \E p \in Pools : afterSwap(p, 1, 0)
    \/ rollBlock(2 * TIMELOCK_BLOCKS)

SpecPools == Init /\ [][NextPools]_vars

\* Admin transfers of one pool among three principals: A registers it and the
\* admin of the time proposes B or C; nothing else succeeds.
NextTransfer ==
    Step({"p1"}, Principals, {"A"}, {ZERO, "B", "C"}, {ZERO}, {MAX_FEE + 1},
         [kind : {"revert"}, word : {0}], {1}, {<<0, 0>>})

SpecTransfer == Init /\ [][NextTransfer]_vars

\* Two pools with every entry point called: A registers both, p1 is handed
\* over to B and is the pool that swaps start on, p2 carries the strategy and
\* the settled volume, and both queue and finalize fees.
NextCommute ==
    \/ \E p \in Pools : afterInitialize(p, "A")
    \/ \E c \in {"A", "B"} : setPoolStrategy("p2", c, STRATEGY_CONTRACT)
    \/ \E p \in Pools, c \in {"A", "B"} : setPoolFee(p, c, MAX_FEE)
    \/ \E p \in Pools : finalizePoolFee(p, "B")
    \/ transferPoolAdmin("p1", "A", "B")
    \/ acceptPoolAdmin("p1", "B")
    \/ getEffectiveFee("p2", [kind |-> "return", word |-> 500])
    \/ getPendingFeeInfo("p1")
    \/ beforeSwap("p1", 1, [kind |-> "return", word |-> 500])
    \/ afterSwap("p2", 1, 0)
    \/ rollBlock(2 * TIMELOCK_BLOCKS)

SpecCommute == Init /\ [][NextCommute]_vars

\* ------------------------------------------------------------------ claims
FeeOps == {"getEffectiveFee", "beforeSwap"}
AdminOps == {"setPoolStrategy", "setPoolFee", "transferPoolAdmin"}

\* The step is a call of op on pool p that succeeded.
Did(op, p) == last'.op = op /\ last'.pool = p /\ last'.err = "ok"

\* C1 - Bounded fee: in every reachable state, for every pool and every strategy
\* behaviour, a fee that _resolveFee yields lies in [0, MAX_FEE], and so does
\* every fee getEffectiveFee or beforeSwap has returned.
C1_BoundedFee ==
    /\ \A p \in Pools, o \in StrategyOutcomes :
           resolveFee(p, o).err = "ok" => resolveFee(p, o).fee \in 0 .. MAX_FEE
    /\ (last.op \in FeeOps /\ last.err = "ok") => last.ret \in 0 .. MAX_FEE

\* A swap on a pool with no override was charged exactly MAX_FEE: its strategy
\* asked for more and was capped.
C1_Witness ==
    /\ last.op = "beforeSwap" /\ last.err = "ok" /\ last.ret = MAX_FEE
    /\ poolStrategy[last.pool] = STRATEGY_CONTRACT
    /\ poolFeeOverride[last.pool] = 0

\* The strategy invocation of the last call yielded no value.
NoAnswer == {"noCode", "revert", "outOfGas"}

\* C2 - Strategy fault isolation: whatever handle is attached, when its
\* invocation yields no value (it reverts, runs out of gas, or has no code
\* behind it), getEffectiveFee does not fail and beforeSwap does not fail on
\* it; both answer the override if it is non-zero, else DEFAULT_FEE.
C2_StrategyFaultIsolation ==
    (last.op \in FeeOps /\ last.strat \in NoAnswer)
        => /\ last.err # "Revert"
           /\ last.err = "ok" => last.ret = overrideOrDefault(poolFeeOverride[last.pool])
           /\ last.op = "getEffectiveFee" => last.err = "ok"

\* C3 - onPreSwap never fails: every beforeSwap call, whatever amountSpecified
\* and strategy behaviour, completes with a fee in [0, MAX_FEE].
C3_PreSwapNeverFails ==
    last.op = "beforeSwap" => (last.err = "ok" /\ last.ret \in 0 .. MAX_FEE)

\* C4 - Timelock enforcement: while a fee queued at block T is pending,
\* finalizePoolFee by any caller before block T + TIMELOCK_BLOCKS fails with
\* FeeChangeTimelocked and leaves the override and the pending fee as they
\* were; from block T + TIMELOCK_BLOCKS on it succeeds.
C4_TimelockEnforcement ==
    [][\A p \in Pools :
          (last'.op = "finalizePoolFee" /\ last'.pool = p /\ queued[p] # NoQueue)
              => IF blockNumber < queued[p].at + TIMELOCK_BLOCKS
                 THEN /\ last'.err = "FeeChangeTimelocked"
                      /\ UNCHANGED <<poolFeeOverride, pendingFee, feeReadyBlock>>
                 ELSE last'.err = "ok"]_vars

\* finalizePoolFee was refused one block before the queued fee became ready.
C4_Witness ==
    /\ last.op = "finalizePoolFee" /\ last.err = "FeeChangeTimelocked"
    /\ queued[last.pool] # NoQueue
    /\ blockNumber = queued[last.pool].at + TIMELOCK_BLOCKS - 1

\* C5 - Mandatory delay: poolFeeOverride of a pool changes only in a successful
\* finalizePoolFee of that pool, and the value it takes is the one the pool's
\* admin of the time queued last, at least TIMELOCK_BLOCKS earlier; setPoolFee
\* itself never changes poolFeeOverride.
C5_MandatoryDelay ==
    [][\A p \in Pools :
          /\ poolFeeOverride'[p] # poolFeeOverride[p]
                 => /\ Did("finalizePoolFee", p)
                    /\ queued[p] # NoQueue
                    /\ queued[p].byAdmin
                    /\ poolFeeOverride'[p] = queued[p].fee
                    /\ blockNumber >= queued[p].at + TIMELOCK_BLOCKS
          /\ last'.op = "setPoolFee" => poolFeeOverride' = poolFeeOverride]_vars

\* A queued fee was activated after the pool had passed to another admin.
C5_Witness ==
    /\ last.op = "finalizePoolFee" /\ last.err = "ok"
    /\ poolFeeOverride[last.pool] = MAX_FEE
    /\ formerAdmins[last.pool] # {}

\* C6 - No instant change by the admin: a call to setPoolStrategy, setPoolFee or
\* transferPoolAdmin leaves the fee the pool resolves, for every strategy
\* behaviour, as it was just before the call.
C6_NoInstantFeeChange ==
    [][\A p \in Pools :
          (last'.op \in AdminOps /\ last'.pool = p)
              => \A o \in StrategyOutcomes :
                     resolveFeeOf(poolStrategy'[p], poolFeeOverride'[p], o)
                         = resolveFeeOf(poolStrategy[p], poolFeeOverride[p], o)]_vars

\* C7 (as stated) - Queued value becomes the effective fee: after a successful
\* finalizePoolFee of a queued v, with no strategy attached, the pool resolves
\* exactly v, for every v setPoolFee accepts.
C7_QueuedBecomesEffective ==
    [][\A p \in Pools :
          (Did("finalizePoolFee", p) /\ poolStrategy'[p] = ZERO)
              => \A o \in StrategyOutcomes :
                     resolveFeeOf(poolStrategy'[p], poolFeeOverride'[p], o)
                         = [err |-> "ok", fee |-> queued[p].fee]]_vars

\* C7 (amended) - after a successful finalizePoolFee of a queued v, with no
\* strategy attached, the pool resolves v when v is in 1 .. MAX_FEE and
\* DEFAULT_FEE when v is 0; and with no strategy attached before and after a
\* step, the resolved fee changes only in a successful finalizePoolFee (a step
\* that keeps poolFeeOverride keeps the fee resolved from it).
C7_QueuedBecomesEffectiveNonZero ==
    [][\A p \in Pools :
          /\ (Did("finalizePoolFee", p) /\ poolStrategy'[p] = ZERO)
                 => \A o \in StrategyOutcomes :
                        resolveFeeOf(poolStrategy'[p], poolFeeOverride'[p], o)
                            = [err |-> "ok",
                               fee |-> IF queued[p].fee # 0 THEN queued[p].fee
                                       ELSE DEFAULT_FEE]
          /\ (poolStrategy[p] = ZERO /\ poolStrategy'[p] = ZERO
                  /\ ~Did("finalizePoolFee", p)
                  /\ poolFeeOverride'[p] # poolFeeOverride[p])
                 => \A o \in StrategyOutcomes :
                        resolveFeeOf(poolStrategy'[p], poolFeeOverride'[p], o)
                            = resolveFeeOf(poolStrategy[p], poolFeeOverride[p], o)]_vars

\* The fee just activated is what the accessor answers on a pool without strategy.
C7_Witness ==
    /\ last.op = "getEffectiveFee" /\ last.err = "ok" /\ last.ret = MAX_FEE
    /\ poolStrategy[last.pool] = ZERO
    /\ poolFeeOverride[last.pool] = MAX_FEE

\* C8 - Two-step transfer: while a transfer of pool p is pending,
\* acceptPoolAdmin by anyone but the pending admin (the current admin included)
\* fails with NotPendingAdmin and changes nothing; by the pending admin it
\* succeeds, makes that principal the admin and empties pendingPoolAdmin.
C8_TwoStepTransfer ==
    [][\A p \in Pools :
          (last'.op = "acceptPoolAdmin" /\ last'.pool = p /\ pendingPoolAdmin[p] # ZERO)
              => IF last'.caller # pendingPoolAdmin[p]
                 THEN /\ last'.err = "NotPendingAdmin"
                      /\ UNCHANGED <<storage, history, blockNumber>>
                 ELSE /\ last'.err = "ok"
                      /\ poolAdmin'[p] = pendingPoolAdmin[p]
                      /\ pendingPoolAdmin'[p] = ZERO]_vars

\* B has accepted the pool that A registered and proposed to B.
C8_Witness ==
    /\ last.op = "acceptPoolAdmin" /\ last.err = "ok" /\ last.caller = "B"
    /\ poolAdmin[last.pool] = "B"
    /\ pendingPoolAdmin[last.pool] = ZERO
    /\ formerAdmins[last.pool] = {"A"}

\* C9 - Loss of authority after transfer: a principal that acceptPoolAdmin has
\* replaced and that is not the pool's admin now fails with Unauthorized in
\* setPoolStrategy, setPoolFee and transferPoolAdmin, and the call changes
\* nothing; the current admin is never refused as Unauthorized (its calls fail
\* only on a fee above MAX_FEE or an empty new admin).
C9_LossOfAuthority ==
    [][\A p \in Pools :
          (last'.op \in AdminOps /\ last'.pool = p)
              => /\ (last'.caller \in formerAdmins[p] /\ last'.caller # poolAdmin[p])
                        => /\ last'.err = "Unauthorized"
                           /\ UNCHANGED <<storage, history, blockNumber>>
                 /\ last'.caller = poolAdmin[p]
                        => /\ last'.err \in {"ok", "FeeTooHigh", "ZeroAddress"}
                           /\ last'.op = "setPoolStrategy" => last'.err = "ok"]_vars

\* The replaced admin tried to queue a fee and was refused.
C9_Witness ==
    /\ last.op = "setPoolFee" /\ last.err = "Unauthorized"
    /\ last.caller \in formerAdmins[last.pool]
    /\ last.caller # poolAdmin[last.pool]

\* C10 - Registration is one-time: afterInitialize on a pool without admin makes
\* the initiator its admin; on a pool with an admin it fails with
\* PoolAlreadyRegistered and changes nothing; and once a pool has an admin it
\* has one in every later state, whatever transfers happen.
C10_RegistrationOnce ==
    [][\A p \in Pools :
          /\ (last'.op = "afterInitialize" /\ last'.pool = p)
                 => IF poolAdmin[p] = ZERO
                    THEN last'.err = "ok" /\ poolAdmin'[p] = last'.caller
                    ELSE /\ last'.err = "PoolAlreadyRegistered"
                         /\ UNCHANGED <<storage, history, blockNumber>>
          /\ poolAdmin[p] # ZERO => poolAdmin'[p] # ZERO]_vars

\* A second registration was refused on a pool whose admin had changed hands.
C10_Witness ==
    /\ last.op = "afterInitialize" /\ last.err = "PoolAlreadyRegistered"
    /\ formerAdmins[last.pool] # {}
    /\ poolAdmin[last.pool] # last.caller

\* The record of pool p: every per-pool mapping at key p.
PoolRecord(p) ==
    [admin |-> poolAdmin[p], pendingAdmin |-> pendingPoolAdmin[p],
     strategy |-> poolStrategy[p], feeOverride |-> poolFeeOverride[p],
     pendingFee |-> pendingFee[p], feeReadyAt |-> feeReadyBlock[p],
     swapCount |-> swapCount[p], totalVolume |-> totalVolume[p]]

\* C11 - Pool independence: a call addressed to one pool, whether it succeeds or
\* fails, leaves every field of every other pool's record as it was; and a call
\* to setPoolStrategy, setPoolFee or transferPoolAdmin by a principal that is
\* not the admin of the addressed pool fails with Unauthorized and changes
\* nothing, also when the caller is the admin of the other pool.
C11_PoolIndependence ==
    [][/\ \A p \in Pools :
              (last'.op # "none" /\ last'.pool # p) => PoolRecord(p)' = PoolRecord(p)
       /\ (last'.op \in AdminOps /\ last'.caller # poolAdmin[last'.pool])
              => /\ last'.err = "Unauthorized"
                 /\ UNCHANGED <<storage, history, blockNumber>>]_vars

\* The admin of p1 was refused on p2, which has an admin of its own, a strategy
\* and a queued fee, after p1 had changed hands.
C11_Witness ==
    /\ last.op = "setPoolFee" /\ last.pool = "p2" /\ last.err = "Unauthorized"
    /\ last.caller = poolAdmin["p1"]
    /\ poolAdmin["p2"] \notin {ZERO, last.caller}
    /\ poolStrategy["p2"] # ZERO /\ pendingFee["p2"] # 0 /\ swapCount["p2"] # 0
    /\ PoolRecord("p1") # PoolRecord("p2")

\* C12 - swapCount saturates: a beforeSwap on a pool whose swapCount is at the
\* largest representable value leaves it there, and no step makes the
\* swapCount of a pool smaller.
C12_SwapCountSaturates ==
    [][\A p \in Pools :
          /\ (last'.op = "beforeSwap" /\ last'.pool = p /\ swapCount[p] = MaxCount)
                 => swapCount'[p] = MaxCount
          /\ swapCount'[p] >= swapCount[p]]_vars

\* C13 - totalVolume saturates: an afterSwap whose volumeIn takes totalVolume
\* past the largest representable value completes and leaves totalVolume at
\* that value, and no step makes the totalVolume of a pool smaller.
C13_TotalVolumeSaturates ==
    [][\A p \in Pools :
          /\ (last'.op = "afterSwap" /\ last'.pool = p
                  /\ totalVolume[p] + last'.ret.volumeIn > MaxCount)
                 => /\ last'.err = "ok"
                    /\ totalVolume'[p] = MaxCount
          /\ totalVolume'[p] >= totalVolume[p]]_vars

\* C14 - Strategy priority and clamp: on a pool with a strategy contract
\* attached whose invocation returns a uint24 v, getEffectiveFee answers
\* min(v, MAX_FEE), whatever poolFeeOverride and pendingFee hold: 0 for v = 0
\* (no fall-through to the override or the default), MAX_FEE for v = 999999.
C14_StrategyPriorityAndClamp ==
    [][\A p \in Pools :
          (/\ last'.op = "getEffectiveFee" /\ last'.pool = p
           /\ poolStrategy[p] = STRATEGY_CONTRACT)
              => \A o \in StrategyOutcomes :
                     (o.kind = "return" /\ o.word <= UINT24_MAX /\ getEffectiveFee(p, o))
                         => /\ last'.err = "ok"
                            /\ last'.ret = IF o.word < MAX_FEE THEN o.word
                                           ELSE MAX_FEE]_vars

\* The accessor answered 0, the strategy's value, on a pool whose override is
\* MAX_FEE.
C14_Witness ==
    /\ last.op = "getEffectiveFee" /\ last.err = "ok" /\ last.ret = 0
    /\ last.strat = "return"
    /\ poolFeeOverride[last.pool] = MAX_FEE

\* C15 - Stored fee bounds: in every reachable state poolFeeOverride and
\* pendingFee of every pool are at most MAX_FEE; setPoolFee by the admin with a
\* fee above MAX_FEE fails with FeeTooHigh and leaves pendingFee and
\* feeReadyBlock as they were; with a fee up to MAX_FEE, MAX_FEE included, it
\* succeeds and queues that fee.
C15_StoredFeeBounds ==
    /\ [](\A p \in Pools : /\ poolFeeOverride[p] \in 0 .. MAX_FEE
                           /\ pendingFee[p] \in 0 .. MAX_FEE)
    /\ [][\A p \in Pools :
             (last'.op = "setPoolFee" /\ last'.pool = p /\ last'.caller = poolAdmin[p])
                 => \A f \in FeeInputs :
                        setPoolFee(p, poolAdmin[p], f)
                            => IF f > MAX_FEE
                               THEN /\ last'.err = "FeeTooHigh"
                                    /\ UNCHANGED <<pendingFee, feeReadyBlock,
                                                   poolFeeOverride>>
                               ELSE /\ last'.err = "ok"
                                    /\ pendingFee'[p] = f]_vars

\* The admin's attempt to queue MAX_FEE + 1 was refused while MAX_FEE was both
\* the active override and the queued fee.
C15_Witness ==
    /\ last.op = "setPoolFee" /\ last.err = "FeeTooHigh"
    /\ pendingFee[last.pool] = MAX_FEE
    /\ poolFeeOverride[last.pool] = MAX_FEE

\* C16 - Admin gating: setPoolStrategy, setPoolFee and transferPoolAdmin on pool
\* p by anyone but poolAdmin[p] fail with Unauthorized and change nothing; by
\* poolAdmin[p], with a fee up to MAX_FEE and a non-zero new admin, they succeed
\* and store their argument.
C16_AdminGating ==
    [][\A p \in Pools :
          /\ (last'.op \in AdminOps /\ last'.pool = p /\ last'.caller # poolAdmin[p])
                 => /\ last'.err = "Unauthorized"
                    /\ UNCHANGED <<storage, history, blockNumber>>
          /\ (last'.op \in AdminOps /\ last'.pool = p /\ last'.caller = poolAdmin[p])
                 => /\ \A s \in StrategyHandles :
                           setPoolStrategy(p, poolAdmin[p], s)
                               => (last'.err = "ok" /\ poolStrategy'[p] = s)
                    /\ \A f \in {0, 100, MAX_FEE} :
                           setPoolFee(p, poolAdmin[p], f)
                               => (last'.err = "ok" /\ pendingFee'[p] = f)
                    /\ \A n \in Principals :
                           transferPoolAdmin(p, poolAdmin[p], n)
                               => (last'.err = "ok" /\ pendingPoolAdmin'[p] = n)]_vars

\* C, who never was admin of the pool, tried to propose a new admin of a
\* registered pool and was refused.
C16_Witness ==
    /\ last.op = "transferPoolAdmin" /\ last.err = "Unauthorized"
    /\ last.caller = "C"
    /\ poolAdmin[last.pool] # ZERO
    /\ pendingPoolAdmin[last.pool] = ZERO

\* C17 - Permissionless finalize: once feeReadyBlock[p] is set and reached,
\* finalizePoolFee(p) succeeds whoever calls it, and its effect does not depend
\* on the caller: the override takes the pending fee, pendingFee and
\* feeReadyBlock are cleared, nothing else of the record changes.
C17_PermissionlessFinalize ==
    [][\A p \in Pools :
          (/\ last'.op = "finalizePoolFee" /\ last'.pool = p
           /\ feeReadyBlock[p] # 0 /\ blockNumber >= feeReadyBlock[p])
              => /\ last'.err = "ok"
                 /\ poolFeeOverride'[p] = pendingFee[p]
                 /\ pendingFee'[p] = 0
                 /\ feeReadyBlock'[p] = 0
                 /\ UNCHANGED <<poolAdmin, pendingPoolAdmin, poolStrategy, swapCount,
                                totalVolume, blockNumber>>]_vars

\* C, neither the admin nor the pending admin nor a former admin of the pool,
\* activated the queued fee while a transfer was pending.
C17_Witness ==
    /\ last.op = "finalizePoolFee" /\ last.err = "ok" /\ last.caller = "C"
    /\ poolAdmin[last.pool] \notin {ZERO, "C"}
    /\ pendingPoolAdmin[last.pool] \notin {ZERO, "C"}
    /\ "C" \notin formerAdmins[last.pool]
    /\ poolFeeOverride[last.pool] = 100

\* C18 - getPendingFeeInfo: right after setPoolFee(p, v) at block N it is
\* (v, N + TIMELOCK_BLOCKS, false); right after a successful finalizePoolFee(p)
\* it is (0, 0, false); what the accessor returns is the stored pair with the
\* flag; and in every state the flag is true exactly when finalizePoolFee(p)
\* succeeds in that state.
C18_PendingFeeInfo ==
    /\ [](last.op = "getPendingFeeInfo"
              => /\ last.ret.fee = pendingFee[last.pool]
                 /\ last.ret.readyBlock = feeReadyBlock[last.pool]
                 /\ last.ret.isReady = pendingFeeInfo(last.pool).isReady)
    /\ [][\A p \in Pools :
             /\ Did("setPoolFee", p)
                    => \A f \in FeeInputs :
                           setPoolFee(p, last'.caller, f)
                               => pendingFeeInfo(p)' =
                                      [fee |-> f,
                                       readyBlock |-> blockNumber + TIMELOCK_BLOCKS,
                                       isReady |-> FALSE]
             /\ Did("finalizePoolFee", p)
                    => pendingFeeInfo(p)' = [fee |-> 0, readyBlock |-> 0, isReady |-> FALSE]
             /\ (last'.op = "finalizePoolFee" /\ last'.pool = p)
                    => (last'.err = "ok" <=> pendingFeeInfo(p).isReady)]_vars

\* The accessor reported a queued MAX_FEE as ready at the very block it became
\* ready.
C18_Witness ==
    /\ last.op = "getPendingFeeInfo"
    /\ last.ret = [fee |-> MAX_FEE, readyBlock |-> blockNumber, isReady |-> TRUE]

\* C19 - beforeSwap agrees with the accessor and always counts: for every
\* amountSpecified and strategy behaviour, beforeSwap returns the fee
\* getEffectiveFee returns in the state before the call for the same strategy
\* behaviour, and it adds exactly 1 to swapCount (below the word's maximum),
\* also when the strategy invocation fails.
C19_PreSwapAgreesAndCounts ==
    [][\A p \in Pools :
          (last'.op = "beforeSwap" /\ last'.pool = p)
              => \A a \in Amounts, o \in StrategyOutcomes :
                     beforeSwap(p, a, o)
                         => /\ resolveFee(p, o).err = "ok"
                                   => /\ last'.err = "ok"
                                      /\ last'.ret = resolveFee(p, o).fee
                            /\ swapCount[p] < MaxCount
                                   => swapCount'[p] = swapCount[p] + 1]_vars

\* C20 - Volume accounting: for every settlement delta, afterSwap completes and
\* adds volumeIn to totalVolume (while the sum fits the word), where volumeIn is
\* the magnitude of a positive side of the delta and 0 when no side is
\* positive; nothing else changes.
C20_VolumeAccounting ==
    [][\A p \in Pools, d \in DeltaSides \X DeltaSides :
          (last'.op = "afterSwap" /\ afterSwap(p, d[1], d[2]))
              => LET volumeIn == last'.ret.volumeIn
                     positive == {x \in {d[1], d[2]} : x > 0}
                 IN /\ last'.err = "ok"
                    /\ IF positive = {} THEN volumeIn = 0 ELSE volumeIn \in positive
                    /\ totalVolume[p] + volumeIn <= MaxCount
                           => totalVolume'[p] = totalVolume[p] + volumeIn
                    /\ UNCHANGED <<poolAdmin, pendingPoolAdmin, poolStrategy, swapCount,
                                   poolFeeOverride, pendingFee, feeReadyBlock>>]_vars

\* A settlement with both sides positive was counted.
C20_Witness ==
    /\ last.op = "afterSwap" /\ last.err = "ok"
    /\ last.ret = [amount0 |-> 1, amount1 |-> 1, volumeIn |-> 1]
    /\ totalVolume[last.pool] = 1

\* The errors of the governance calls.
GovernanceErrors ==
    {"Unauthorized", "FeeTooHigh", "FeeChangeTimelocked", "PoolAlreadyRegistered",
     "NoPendingAdmin", "NotPendingAdmin", "ZeroAddress"}

C23_RequeueLastWriterWins ==
    [][\A p \in Pools :
          /\ (Did("setPoolFee", p) /\ feeReadyBlock[p] # 0)
                 => \A f \in FeeInputs :
                        setPoolFee(p, last'.caller, f)
                            => /\ pendingFee'[p] = f
                               /\ feeReadyBlock'[p] = blockNumber + TIMELOCK_BLOCKS
                               /\ poolFeeOverride'[p] = poolFeeOverride[p]
                               /\ last'.ret = [fee |-> pendingFee[p],
                                               readyBlock |-> feeReadyBlock[p]]
          /\ (last'.op = "finalizePoolFee" /\ last'.pool = p /\ queued[p] # NoQueue
                  /\ blockNumber < queued[p].at + TIMELOCK_BLOCKS)
                 => /\ last'.err = "FeeChangeTimelocked"
                    /\ UNCHANGED <<storage, blockNumber>>
          /\ Did("finalizePoolFee", p)
                 => /\ poolFeeOverride'[p] = queued[p].fee
                    /\ blockNumber >= queued[p].at + TIMELOCK_BLOCKS]_vars

\* A queued fee whose ready block had been reached was replaced by another
\* value: the new ready block lies TIMELOCK_BLOCKS ahead, so a finalize now is
\* refused although the replaced fee was ready, and the replaced value is not
\* the override.
C23_Witness ==
    /\ last.op = "setPoolFee" /\ last.err = "ok"
    /\ last.ret.readyBlock # 0 /\ blockNumber >= last.ret.readyBlock
    /\ last.ret.fee # pendingFee[last.pool]
    /\ poolFeeOverride[last.pool] # last.ret.fee
    /\ feeReadyBlock[last.pool] = blockNumber + TIMELOCK_BLOCKS
    /\ finalizePoolFeeErr(last.pool) = "FeeChangeTimelocked"

\* C24 - A queued change is applied at most once: feeReadyBlock of a pool is
\* non-zero exactly while a setPoolFee has succeeded with no successful
\* finalizePoolFee since, and a non-zero pendingFee implies a non-zero
\* feeReadyBlock; a successful finalizePoolFee moves pendingFee into
\* poolFeeOverride and zeroes pendingFee and feeReadyBlock; finalizePoolFee with
\* nothing queued fails with FeeChangeTimelocked; and only a successful
\* finalizePoolFee takes feeReadyBlock back to 0.
C24_AppliedAtMostOnce ==
    /\ [](\A p \in Pools : /\ feeReadyBlock[p] # 0 <=> queued[p] # NoQueue
                           /\ pendingFee[p] # 0 => feeReadyBlock[p] # 0)
    /\ [][\A p \in Pools :
             /\ Did("finalizePoolFee", p)
                    => /\ poolFeeOverride'[p] = pendingFee[p]
                       /\ pendingFee'[p] = 0
                       /\ feeReadyBlock'[p] = 0
             /\ (last'.op = "finalizePoolFee" /\ last'.pool = p /\ feeReadyBlock[p] = 0)
                    => /\ last'.err = "FeeChangeTimelocked"
                       /\ UNCHANGED <<storage, blockNumber>>
             /\ (feeReadyBlock[p] # 0 /\ feeReadyBlock'[p] = 0)
                    => Did("finalizePoolFee", p)]_vars

\* A second finalizePoolFee of a fee that was already activated was refused.
C24_Witness ==
    /\ last.op = "finalizePoolFee" /\ last.err = "FeeChangeTimelocked"
    /\ queued[last.pool] = NoQueue /\ feeReadyBlock[last.pool] = 0
    /\ poolFeeOverride[last.pool] = MAX_FEE

\* C25 - Proposal does not transfer: transferPoolAdmin by the admin with a
\* non-zero newAdmin stores it in pendingPoolAdmin and leaves poolAdmin as it
\* was; with address(0) it fails with ZeroAddress and changes nothing; and while
\* a transfer is pending, the proposed principal (unless it is the admin) is
\* refused as Unauthorized in every admin-only call and the admin is not.
C25_ProposalDoesNotTransfer ==
    [][\A p \in Pools :
          /\ (last'.op = "transferPoolAdmin" /\ last'.pool = p
                  /\ last'.caller = poolAdmin[p])
                 => \A n \in Addresses :
                        transferPoolAdmin(p, poolAdmin[p], n)
                            => IF n = ZERO
                               THEN /\ last'.err = "ZeroAddress"
                                    /\ UNCHANGED <<storage, blockNumber>>
                               ELSE /\ last'.err = "ok"
                                    /\ pendingPoolAdmin'[p] = n
                                    /\ poolAdmin'[p] = poolAdmin[p]
          /\ (last'.op \in AdminOps /\ last'.pool = p /\ pendingPoolAdmin[p] # ZERO)
                 => /\ (last'.caller = pendingPoolAdmin[p] /\ last'.caller # poolAdmin[p])
                           => /\ last'.err = "Unauthorized"
                              /\ UNCHANGED <<storage, blockNumber>>
                    /\ last'.caller = poolAdmin[p] => last'.err # "Unauthorized"]_vars

\* The proposed admin, who has not accepted yet, tried to attach a strategy and
\* was refused.
C25_Witness ==
    /\ last.op = "setPoolStrategy" /\ last.err = "Unauthorized"
    /\ last.caller = pendingPoolAdmin[last.pool]
    /\ last.caller # poolAdmin[last.pool]
    /\ poolAdmin[last.pool] # ZERO

\* C26 - pendingPoolAdmin lifecycle: pendingPoolAdmin of a pool is non-zero
\* exactly while a transferPoolAdmin has succeeded with no successful
\* acceptPoolAdmin since, and then it is one of the principals proposed;
\* acceptPoolAdmin with nothing pending fails with NoPendingAdmin for every
\* caller and changes nothing; a successful acceptPoolAdmin empties
\* pendingPoolAdmin.
C26_PendingAdminLifecycle ==
    /\ [](\A p \in Pools : /\ pendingPoolAdmin[p] # ZERO <=> proposed[p] # {}
                           /\ pendingPoolAdmin[p] # ZERO
                                  => pendingPoolAdmin[p] \in proposed[p])
    /\ [][\A p \in Pools :
             /\ (last'.op = "acceptPoolAdmin" /\ last'.pool = p
                     /\ pendingPoolAdmin[p] = ZERO)
                    => /\ last'.err = "NoPendingAdmin"
                       /\ UNCHANGED <<storage, blockNumber>>
             /\ Did("acceptPoolAdmin", p) => pendingPoolAdmin'[p] = ZERO]_vars

\* The admin, who got the role by accepting a proposal, tried to accept once
\* more and was refused.
C26_Witness ==
    /\ last.op = "acceptPoolAdmin" /\ last.err = "NoPendingAdmin"
    /\ last.caller = poolAdmin[last.pool]
    /\ formerAdmins[last.pool] # {}
    /\ last.caller \notin formerAdmins[last.pool]

\* C27 - Proposal replacement: a transferPoolAdmin on a pool with a transfer
\* pending replaces the proposed principal; acceptPoolAdmin by a principal that
\* was proposed earlier and replaced fails with NotPendingAdmin and changes
\* nothing; and a successful acceptPoolAdmin is by the principal proposed last,
\* who becomes the admin.
C27_ProposalReplacement ==
    [][\A p \in Pools :
          /\ (Did("transferPoolAdmin", p) /\ pendingPoolAdmin[p] # ZERO)
                 => \A n \in Principals :
                        transferPoolAdmin(p, last'.caller, n)
                            => pendingPoolAdmin'[p] = n
          /\ (last'.op = "acceptPoolAdmin" /\ last'.pool = p
                  /\ last'.caller \in proposed[p]
                  /\ last'.caller # pendingPoolAdmin[p])
                 => /\ last'.err = "NotPendingAdmin"
                    /\ UNCHANGED <<storage, blockNumber>>
          /\ Did("acceptPoolAdmin", p)
                 => /\ last'.caller = pendingPoolAdmin[p]
                    /\ poolAdmin'[p] = pendingPoolAdmin[p]]_vars

\* A proposed B, then C; B tried to accept and was refused.
C27_Witness ==
    /\ last.op = "acceptPoolAdmin" /\ last.err = "NotPendingAdmin"
    /\ last.caller = "B"
    /\ proposed[last.pool] = {"B", "C"}
    /\ pendingPoolAdmin[last.pool] = "C"
    /\ poolAdmin[last.pool] = "A"

\* C28 - Admin state machine: a registered pool stays registered; it is Owned
\* (nothing pending) or PendingTransfer, and an unregistered pool has nothing
\* pending; in every PendingTransfer state the proposed principal can accept
\* and become the owner; in every registered state the admin can propose
\* itself, after which its own accept leaves it the owner with nothing pending;
\* and in every registered state a governance call of the admin succeeds.
C28_AdminStateMachine ==
    /\ [][\A p \in Pools : poolAdmin[p] # ZERO => poolAdmin'[p] # ZERO]_vars
    /\ [](\A p \in Pools :
             /\ poolAdmin[p] = ZERO => pendingPoolAdmin[p] = ZERO
             /\ (poolAdmin[p] # ZERO /\ pendingPoolAdmin[p] # ZERO)
                    => ENABLED (/\ acceptPoolAdmin(p, pendingPoolAdmin[p])
                                /\ poolAdmin'[p] = pendingPoolAdmin[p]
                                /\ pendingPoolAdmin'[p] = ZERO)
             /\ poolAdmin[p] # ZERO
                    => /\ ENABLED (/\ transferPoolAdmin(p, poolAdmin[p], poolAdmin[p])
                                   /\ poolAdmin'[p] = poolAdmin[p]
                                   /\ pendingPoolAdmin'[p] = poolAdmin[p])
                       /\ ENABLED (/\ setPoolStrategy(p, poolAdmin[p], poolStrategy[p])
                                   /\ last'.err = "ok"))

\* The admin took back a pending transfer: it proposed itself and accepted.
C28_Witness ==
    /\ last.op = "acceptPoolAdmin" /\ last.err = "ok"
    /\ last.caller = poolAdmin[last.pool]
    /\ formerAdmins[last.pool] = {last.caller}
    /\ pendingPoolAdmin[last.pool] = ZERO

\* C29 - Field authority: across every step, poolAdmin of a pool changes only
\* in a successful afterInitialize or in acceptPoolAdmin called by the pending
\* admin; pendingPoolAdmin only in transferPoolAdmin called by the admin or in
\* a successful acceptPoolAdmin; poolStrategy only in setPoolStrategy called by
\* the admin; pendingFee and feeReadyBlock only in setPoolFee called by the
\* admin or in a successful finalizePoolFee; poolFeeOverride only in a
\* successful finalizePoolFee.
C29_FieldAuthority ==
    [][\A p \in Pools :
          /\ poolAdmin'[p] # poolAdmin[p]
                 => \/ Did("afterInitialize", p)
                    \/ Did("acceptPoolAdmin", p) /\ last'.caller = pendingPoolAdmin[p]
          /\ pendingPoolAdmin'[p] # pendingPoolAdmin[p]
                 => \/ Did("transferPoolAdmin", p) /\ last'.caller = poolAdmin[p]
                    \/ Did("acceptPoolAdmin", p)
          /\ poolStrategy'[p] # poolStrategy[p]
                 => Did("setPoolStrategy", p) /\ last'.caller = poolAdmin[p]
          /\ (pendingFee'[p] # pendingFee[p] \/ feeReadyBlock'[p] # feeReadyBlock[p])
                 => \/ Did("setPoolFee", p) /\ last'.caller = poolAdmin[p]
                    \/ Did("finalizePoolFee", p)
          /\ poolFeeOverride'[p] # poolFeeOverride[p]
                 => Did("finalizePoolFee", p)]_vars

\* An admin who got the pool by transfer attached a strategy, with a transfer
\* pending and an override active.
C29_Witness ==
    /\ last.op = "setPoolStrategy" /\ last.err = "ok"
    /\ last.caller = poolAdmin[last.pool]
    /\ formerAdmins[last.pool] # {}
    /\ poolStrategy[last.pool] = STRATEGY_CONTRACT
    /\ pendingPoolAdmin[last.pool] # ZERO
    /\ poolFeeOverride[last.pool] = MAX_FEE

\* C30 - Swap hooks only observe: beforeSwap on pool p changes nothing but
\* swapCount[p], which a completed call takes up by exactly 1 (below the
\* word's maximum); afterSwap on p changes nothing but totalVolume[p]; and no
\* other call changes swapCount or totalVolume.
C30_SwapHooksObserveOnly ==
    [][\A p \in Pools :
          /\ (last'.op = "beforeSwap" /\ last'.pool = p)
                 => /\ UNCHANGED <<poolAdmin, pendingPoolAdmin, poolStrategy, totalVolume,
                                   poolFeeOverride, pendingFee, feeReadyBlock,
                                   blockNumber>>
                    /\ \A q \in Pools \ {p} : swapCount'[q] = swapCount[q]
                    /\ (last'.err = "ok" /\ swapCount[p] < MaxCount)
                           => swapCount'[p] = swapCount[p] + 1
          /\ (last'.op = "afterSwap" /\ last'.pool = p)
                 => /\ UNCHANGED <<poolAdmin, pendingPoolAdmin, poolStrategy, swapCount,
                                   poolFeeOverride, pendingFee, feeReadyBlock,
                                   blockNumber>>
                    /\ \A q \in Pools \ {p} : totalVolume'[q] = totalVolume[q]
          /\ last'.op \notin {"beforeSwap", "afterSwap"}
                 => UNCHANGED <<swapCount, totalVolume>>]_vars

\* A swap whose strategy reverted was counted on a pool with a strategy
\* attached and a fee queued.
C30_Witness ==
    /\ last.op = "beforeSwap" /\ last.err = "ok" /\ last.strat = "revert"
    /\ swapCount[last.pool] = 1
    /\ poolStrategy[last.pool] = STRATEGY_CONTRACT
    /\ feeReadyBlock[last.pool] # 0

\* ------------------------------------------------- one pool's record in isolation
\* An operation with its inputs: the caller, an address argument (the strategy
\* handle or the new admin), a number (the fee or amountSpecified), the
\* behaviour of the strategy and the settlement delta.
Operation(name, c, addr, num, outcome, d) ==
    [name |-> name, caller |-> c, addr |-> addr, num |-> num, outcome |-> outcome,
     d |-> d]

\* The call reverted: the record stays as it was.
Reverted(rec, err, ret) == [rec |-> rec, err |-> err, ret |-> ret]

\* What each entry point does to the record of the pool it is called on, read
\* off the function bodies: the result and the record afterwards, from the
\* record before, block.number and the inputs.
localResult(rec, now, op) ==
    CASE op.name = "afterInitialize" ->
           IF rec.admin # ZERO THEN Reverted(rec, "PoolAlreadyRegistered", 0)
           ELSE [rec |-> [rec EXCEPT !.admin = op.caller], err |-> "ok", ret |-> 0]
      [] op.name = "setPoolStrategy" ->
           IF op.caller # rec.admin THEN Reverted(rec, "Unauthorized", 0)
           ELSE [rec |-> [rec EXCEPT !.strategy = op.addr], err |-> "ok", ret |-> 0]
      [] op.name = "setPoolFee" ->
           IF op.caller # rec.admin THEN Reverted(rec, "Unauthorized", NothingQueued)
           ELSE IF op.num > MAX_FEE THEN Reverted(rec, "FeeTooHigh", NothingQueued)
           ELSE [rec |-> [rec EXCEPT !.pendingFee = op.num,
                                     !.feeReadyAt = now + TIMELOCK_BLOCKS],
                 err |-> "ok",
                 ret |-> [fee |-> rec.pendingFee, readyBlock |-> rec.feeReadyAt]]
      [] op.name = "finalizePoolFee" ->
           IF rec.feeReadyAt = 0 \/ now < rec.feeReadyAt
           THEN Reverted(rec, "FeeChangeTimelocked", 0)
           ELSE [rec |-> [rec EXCEPT !.feeOverride = rec.pendingFee,
                                     !.pendingFee = 0, !.feeReadyAt = 0],
                 err |-> "ok", ret |-> 0]
      [] op.name = "transferPoolAdmin" ->
           IF op.caller # rec.admin THEN Reverted(rec, "Unauthorized", 0)
           ELSE IF op.addr = ZERO THEN Reverted(rec, "ZeroAddress", 0)
           ELSE [rec |-> [rec EXCEPT !.pendingAdmin = op.addr], err |-> "ok", ret |-> 0]
      [] op.name = "acceptPoolAdmin" ->
           IF rec.pendingAdmin = ZERO THEN Reverted(rec, "NoPendingAdmin", 0)
           ELSE IF op.caller # rec.pendingAdmin THEN Reverted(rec, "NotPendingAdmin", 0)
           ELSE [rec |-> [rec EXCEPT !.admin = rec.pendingAdmin, !.pendingAdmin = ZERO],
                 err |-> "ok", ret |-> 0]
      [] op.name = "getEffectiveFee" ->
           LET r == resolveFeeOf(rec.strategy, rec.feeOverride, op.outcome) IN
           [rec |-> rec, err |-> r.err, ret |-> r.fee]
      [] op.name = "getPendingFeeInfo" ->
           [rec |-> rec, err |-> "ok",
            ret |-> [fee |-> rec.pendingFee, readyBlock |-> rec.feeReadyAt,
                     isReady |-> (rec.feeReadyAt > 0 /\ now >= rec.feeReadyAt)]]
      [] op.name = "beforeSwap" ->
           LET r == resolveFeeOf(rec.strategy, rec.feeOverride, op.outcome)
               a == amountInOf(op.num)
           IN IF r.err # "ok" THEN Reverted(rec, r.err, 0)
              ELSE IF a.err # "ok" THEN Reverted(rec, a.err, 0)
              ELSE [rec |-> [rec EXCEPT !.swapCount = bumpCount(rec.swapCount)],
                    err |-> "ok", ret |-> r.fee]
      [] op.name = "afterSwap" ->
           LET volumeIn == volumeInOf(op.d[1], op.d[2]) IN
           [rec |-> [rec EXCEPT !.totalVolume = addVolume(rec.totalVolume, volumeIn)],
            err |-> "ok",
            ret |-> [amount0 |-> op.d[1], amount1 |-> op.d[2], volumeIn |-> volumeIn]]

\* The step was the call op on pool p and did what localResult says.
ActsLocally(p, op) ==
    LET r == localResult(PoolRecord(p), blockNumber, op) IN
    /\ last'.err = r.err
    /\ last'.ret = r.ret
    /\ PoolRecord(p)' = r.rec

NoOutcome == [kind |-> "revert", word |-> 0]
NoDelta == <<0, 0>>

\* One call of every entry point, for the pool that the step was not addressed to.
OtherPoolOps ==
    {Operation("afterInitialize", "A", ZERO, 0, NoOutcome, NoDelta),
     Operation("setPoolStrategy", "A", STRATEGY_CONTRACT, 0, NoOutcome, NoDelta),
     Operation("setPoolStrategy", "B", ZERO, 0, NoOutcome, NoDelta),
     Operation("setPoolFee", "A", ZERO, 100, NoOutcome, NoDelta),
     Operation("setPoolFee", "B", ZERO, MAX_FEE + 1, NoOutcome, NoDelta),
     Operation("finalizePoolFee", "B", ZERO, 0, NoOutcome, NoDelta),
     Operation("transferPoolAdmin", "A", "B", 0, NoOutcome, NoDelta),
     Operation("acceptPoolAdmin", "B", ZERO, 0, NoOutcome, NoDelta),
     Operation("getEffectiveFee", ZERO, ZERO, 0, [kind |-> "return", word |-> 500],
               NoDelta),
     Operation("getPendingFeeInfo", ZERO, ZERO, 0, NoOutcome, NoDelta),
     Operation("beforeSwap", ZERO, ZERO, 1, [kind |-> "return", word |-> 500], NoDelta),
     Operation("beforeSwap", ZERO, ZERO, -1, NoOutcome, NoDelta),
     Operation("afterSwap", ZERO, ZERO, 0, NoOutcome, <<1, 0>>)}

\* C22 - Cross-pool commutativity: every call op1 on a pool p1 is a function of
\* p1's record, the block number and its inputs alone (its result and p1's
\* record afterwards), and leaves the block number and the record of every
\* other pool p2 as they were; so every op2 on p2 gives the same result and the
\* same record of p2 whether it runs before or after op1, and the two orders
\* end in the same state with the same results.
C22_CrossPoolCommutativity ==
    [][\A p \in Pools :
          (last'.op # "none" /\ last'.pool = p)
              => /\ last'.op = "afterInitialize"
                        => \A c \in Principals :
                               afterInitialize(p, c)
                                   => ActsLocally(p, Operation("afterInitialize", c, ZERO,
                                                               0, NoOutcome, NoDelta))
                 /\ last'.op = "setPoolStrategy"
                        => \A c \in Principals, h \in StrategyHandles :
                               setPoolStrategy(p, c, h)
                                   => ActsLocally(p, Operation("setPoolStrategy", c, h, 0,
                                                               NoOutcome, NoDelta))
                 /\ last'.op = "setPoolFee"
                        => \A c \in Principals, f \in FeeInputs :
                               setPoolFee(p, c, f)
                                   => ActsLocally(p, Operation("setPoolFee", c, ZERO, f,
                                                               NoOutcome, NoDelta))
                 /\ last'.op = "finalizePoolFee"
                        => \A c \in Principals :
                               finalizePoolFee(p, c)
                                   => ActsLocally(p, Operation("finalizePoolFee", c, ZERO,
                                                               0, NoOutcome, NoDelta))
                 /\ last'.op = "transferPoolAdmin"
                        => \A c \in Principals, n \in Addresses :
                               transferPoolAdmin(p, c, n)
                                   => ActsLocally(p, Operation("transferPoolAdmin", c, n,
                                                               0, NoOutcome, NoDelta))
                 /\ last'.op = "acceptPoolAdmin"
                        => \A c \in Principals :
                               acceptPoolAdmin(p, c)
                                   => ActsLocally(p, Operation("acceptPoolAdmin", c, ZERO,
                                                               0, NoOutcome, NoDelta))
                 /\ last'.op = "getEffectiveFee"
                        => \A o \in StrategyOutcomes :
                               getEffectiveFee(p, o)
                                   => ActsLocally(p, Operation("getEffectiveFee", ZERO,
                                                               ZERO, 0, o, NoDelta))
                 /\ last'.op = "getPendingFeeInfo"
                        => (getPendingFeeInfo(p)
                               => ActsLocally(p, Operation("getPendingFeeInfo", ZERO, ZERO,
                                                           0, NoOutcome, NoDelta)))
                 /\ last'.op = "beforeSwap"
                        => \A a \in Amounts, o \in StrategyOutcomes :
                               beforeSwap(p, a, o)
                                   => ActsLocally(p, Operation("beforeSwap", ZERO, ZERO, a,
                                                               o, NoDelta))
                 /\ last'.op = "afterSwap"
                        => \A d \in DeltaSides \X DeltaSides :
                               afterSwap(p, d[1], d[2])
                                   => ActsLocally(p, Operation("afterSwap", ZERO, ZERO, 0,
                                                               NoOutcome, d))
                 /\ blockNumber' = blockNumber
                 /\ \A q \in Pools \ {p}, op2 \in OtherPoolOps :
                        localResult(PoolRecord(q)', blockNumber', op2)
                            = localResult(PoolRecord(q), blockNumber, op2)]_vars

\* B, the admin of p1 by transfer, queued a fee on p1 while p2, under admin A,
\* has a fee of its own ready to be finalized: finalizePoolFee(p2) and this
\* setPoolFee(p1) commute.
C22_Witness ==
    /\ last.op = "setPoolFee" /\ last.pool = "p1" /\ last.err = "ok"
    /\ last.caller = "B" /\ poolAdmin["p1"] = "B" /\ poolAdmin["p2"] = "A"
    /\ feeReadyBlock["p2"] # 0 /\ blockNumber >= feeReadyBlock["p2"]
    /\ feeReadyBlock["p1"] = blockNumber + TIMELOCK_BLOCKS

\* -------------------------------------------------------- claims C31 to C36
\* Fee resolution of one pool: A attaches and removes a strategy that answers
\* below the cap, above it, or reverts, and queues and finalizes overrides.
NextFee ==
    Step({"p1"}, {"A"}, {"A"}, {ZERO}, {ZERO, STRATEGY_CONTRACT}, {0, MAX_FEE},
         [kind : {"return"}, word : {500, 999999}] \cup [kind : {"revert"}, word : {0}],
         {1}, {<<0, 0>>})

SpecFee == Init /\ [][NextFee]_vars

\* The invocations of a strategy that the catch clause swallows.
CaughtFailures == {"revert", "outOfGas"}

\* C31 - No caching in fee resolution: getEffectiveFee and getPendingFeeInfo
\* change no storage; what getEffectiveFee answers is _resolveFee of the
\* strategy slot, the override and the strategy's behaviour at the time of the
\* call; right after a setPoolStrategy(p, address(0)) it answers the override
\* if that is not zero and DEFAULT_FEE otherwise; and when the previous fee
\* resolution on p found the strategy failing and the strategy now returns a
\* uint24, that value (capped) is the answer.
C31_NoCaching ==
    [][\A p \in Pools :
          /\ (last'.op \in {"getEffectiveFee", "getPendingFeeInfo"} /\ last'.pool = p)
                 => UNCHANGED <<storage, blockNumber>>
          /\ (last'.op = "getEffectiveFee" /\ last'.pool = p)
                 => \A o \in StrategyOutcomes :
                        getEffectiveFee(p, o)
                            => /\ [err |-> last'.err, fee |-> last'.ret]
                                      = resolveFeeOf(poolStrategy[p], poolFeeOverride[p], o)
                               /\ (/\ last.op = "setPoolStrategy" /\ last.pool = p
                                   /\ last.err = "ok" /\ poolStrategy[p] = ZERO)
                                      => /\ last'.err = "ok"
                                         /\ last'.ret = IF poolFeeOverride[p] # 0
                                                        THEN poolFeeOverride[p]
                                                        ELSE DEFAULT_FEE
                               /\ (/\ last.op \in FeeOps /\ last.pool = p
                                   /\ last.strat \in CaughtFailures
                                   /\ poolStrategy[p] = STRATEGY_CONTRACT
                                   /\ o.kind = "return" /\ o.word <= UINT24_MAX)
                                      => /\ last'.err = "ok"
                                         /\ last'.ret = capFee(o.word)]_vars

\* The accessor answered with the strategy's 500 although an override of
\* MAX_FEE is in force.
C31_Witness ==
    /\ last.op = "getEffectiveFee" /\ last.err = "ok"
    /\ last.strat = "return" /\ last.ret = 500
    /\ poolFeeOverride[last.pool] = MAX_FEE

\* Queuing and finalizing fees on one pool while blocks go by: A registers the
\* pool and queues fees, C is an outsider, and the chain advances by one
\* timelock at a time.
NextFinalize ==
    \/ afterInitialize("p1", "A")
    \/ \E c \in {"A", "C"}, f \in {0, MAX_FEE} : setPoolFee("p1", c, f)
    \/ \E c \in {"A", "C"} : finalizePoolFee("p1", c)
    \/ getPendingFeeInfo("p1")
    \/ getEffectiveFee("p1", [kind |-> "revert", word |-> 0])
    \/ rollBlock(TIMELOCK_BLOCKS)

\* Fairness: the chain keeps producing blocks (up to the last block of the
\* model), and the outsider C keeps calling finalizePoolFee while the call
\* would succeed.
FairFinalize ==
    /\ WF_vars(rollBlock(TIMELOCK_BLOCKS))
    /\ WF_vars(finalizePoolFee("p1", "C") /\ last'.err = "ok")

SpecFinalize == Init /\ [][NextFinalize]_vars /\ FairFinalize

\* The queued fee of p has reached its ready block.
FeeReady(p) == feeReadyBlock[p] # 0 /\ blockNumber >= feeReadyBlock[p]

\* Ready blocks the chain of the model can reach.
ReadyBlocks == {b \in 1 .. MaxBlock : b > TIMELOCK_BLOCKS}

\* C32 - Activation cannot be withheld by inaction: finalizePoolFee(p) succeeds
\* for every caller exactly from the ready block of the queued fee on; it keeps
\* succeeding until it is executed or the admin queues again; and under
\* fairness on blocks and on an outsider's finalizePoolFee, a fee queued with a
\* ready block the chain reaches is eventually installed as poolFeeOverride by
\* finalizePoolFee, unless it is replaced by a newer setPoolFee.
C32_ActivationNotWithheld ==
    /\ [](\A c \in Principals :
              FeeReady("p1") <=> ENABLED (finalizePoolFee("p1", c) /\ last'.err = "ok"))
    /\ [][(/\ FeeReady("p1")
           /\ ~Did("finalizePoolFee", "p1")
           /\ ~Did("setPoolFee", "p1")) => FeeReady("p1")']_vars
    /\ \A f \in {0, MAX_FEE}, r \in ReadyBlocks :
           (pendingFee["p1"] = f /\ feeReadyBlock["p1"] = r)
               ~> \/ /\ last.op = "finalizePoolFee" /\ last.err = "ok"
                     /\ poolFeeOverride["p1"] = f /\ feeReadyBlock["p1"] = 0
                  \/ feeReadyBlock["p1"] \notin {0, r}
                  \/ (feeReadyBlock["p1"] = r /\ pendingFee["p1"] # f)

\* The outsider C finalized the MAX_FEE the admin A had queued.
C32_Witness ==
    /\ last.op = "finalizePoolFee" /\ last.err = "ok" /\ last.caller = "C"
    /\ poolAdmin[last.pool] = "A"
    /\ poolFeeOverride[last.pool] = MAX_FEE

\* Two pools of which either may still be unregistered while the other is
\* governed: every management call and the fee accessor on both.
NextInert ==
    \/ \E p \in Pools : afterInitialize(p, "A")
    \/ \E p \in Pools, c \in {"A", "B"} : setPoolStrategy(p, c, STRATEGY_CONTRACT)
    \/ \E p \in Pools, c \in {"A", "B"} : setPoolFee(p, c, MAX_FEE)
    \/ \E p \in Pools : finalizePoolFee(p, "B")
    \/ \E p \in Pools, c \in {"A", "B"} : transferPoolAdmin(p, c, "B")
    \/ \E p \in Pools : acceptPoolAdmin(p, "B")
    \/ \E p \in Pools :
           getEffectiveFee(p, [kind |-> "return", word |-> 500])
    \/ rollBlock(2 * TIMELOCK_BLOCKS)

SpecInert == Init /\ [][NextInert]_vars

\* No _afterInitialize has registered the pool: registration is the only write
\* of poolAdmin[p] from address(0), and no call writes address(0) back.
Unregistered(p) == poolAdmin[p] = ZERO

\* C33 - Unregistered pools are inert: a registered pool never becomes
\* unregistered; while a pool is unregistered, setPoolStrategy, setPoolFee and
\* transferPoolAdmin on it fail with Unauthorized for every principal,
\* acceptPoolAdmin fails with NoPendingAdmin and finalizePoolFee with
\* FeeChangeTimelocked; its admin, pending admin, strategy, override, pending
\* fee and ready block are all zero; and getEffectiveFee answers DEFAULT_FEE.
C33_UnregisteredInert ==
    /\ [](\A p \in Pools :
              Unregistered(p)
                  => /\ pendingPoolAdmin[p] = ZERO /\ poolStrategy[p] = ZERO
                     /\ poolFeeOverride[p] = 0 /\ pendingFee[p] = 0
                     /\ feeReadyBlock[p] = 0
                     /\ \A o \in StrategyOutcomes :
                            resolveFee(p, o) = [err |-> "ok", fee |-> DEFAULT_FEE])
    /\ [][\A p \in Pools :
             /\ ~Unregistered(p) => ~Unregistered(p)'
             /\ (Unregistered(p) /\ last'.op # "none" /\ last'.pool = p)
                    => /\ last'.op \in AdminOps => last'.err = "Unauthorized"
                       /\ last'.op = "acceptPoolAdmin" => last'.err = "NoPendingAdmin"
                       /\ last'.op = "finalizePoolFee"
                              => last'.err = "FeeChangeTimelocked"
                       /\ last'.op = "getEffectiveFee"
                              => last'.err = "ok" /\ last'.ret = DEFAULT_FEE
                       /\ last'.op # "afterInitialize"
                              => PoolRecord(p)' = PoolRecord(p)]_vars

\* The admin of p1, which has a fee queued and the timelock behind it, was
\* refused on the unregistered p2.
C33_Witness ==
    /\ last.op = "setPoolFee" /\ last.pool = "p2" /\ last.err = "Unauthorized"
    /\ Unregistered("p2")
    /\ last.caller = poolAdmin["p1"]
    /\ FeeReady("p1")

\* One pool changing hands with fees queued: A registers it, the admin of the
\* time attaches a strategy, queues fees and proposes A or B, and anyone
\* finalizes.
NextHandover ==
    \/ afterInitialize("p1", "A")
    \/ \E c \in {"A", "B"} : setPoolStrategy("p1", c, STRATEGY_CONTRACT)
    \/ \E c \in {"A", "B"}, f \in {100, MAX_FEE} : setPoolFee("p1", c, f)
    \/ \E c \in Principals : finalizePoolFee("p1", c)
    \/ \E c \in {"A", "B"}, n \in {"A", "B"} : transferPoolAdmin("p1", c, n)
    \/ \E c \in {"A", "B"} : acceptPoolAdmin("p1", c)
    \/ \E d \in BlockSteps : rollBlock(d)

SpecHandover == Init /\ [][NextHandover]_vars

\* C34 - Admin transfer leaves the fee configuration untouched: a successful
\* acceptPoolAdmin on p changes only poolAdmin[p] and pendingPoolAdmin[p], so
\* the strategy, the override, the pending fee and its ready block are as they
\* were; and a finalizePoolFee on p, by any caller and whoever the admin is by
\* then, succeeds once the ready block is reached and installs the pending fee.
C34_TransferKeepsFeeConfig ==
    [][\A p \in Pools :
          /\ Did("acceptPoolAdmin", p)
                 => /\ UNCHANGED <<poolStrategy, poolFeeOverride, pendingFee,
                                   feeReadyBlock, swapCount, totalVolume, blockNumber,
                                   queued>>
                    /\ \A q \in Pools \ {p} :
                           /\ poolAdmin'[q] = poolAdmin[q]
                           /\ pendingPoolAdmin'[q] = pendingPoolAdmin[q]
          /\ (last'.op = "finalizePoolFee" /\ last'.pool = p /\ FeeReady(p))
                 => /\ last'.err = "ok"
                    /\ poolFeeOverride'[p] = pendingFee[p]]_vars

\* B took the pool over from A while a fee that A had queued was past its
\* ready block and still pending.
C34_Witness ==
    /\ last.op = "acceptPoolAdmin" /\ last.err = "ok" /\ last.caller = "B"
    /\ poolAdmin[last.pool] = "B" /\ formerAdmins[last.pool] = {"A"}
    /\ FeeReady(last.pool) /\ pendingFee[last.pool] = MAX_FEE
    /\ queued[last.pool].fee = MAX_FEE

\* C35 - No stale proposals: whenever a transfer of p is pending, the pending
\* admin is the newAdmin of the latest successful transferPoolAdmin on p and
\* that call was made by the present admin of p; a successful transferPoolAdmin
\* is the latest proposal from then on; and a successful acceptPoolAdmin is by
\* the principal whom the admin being replaced proposed last, and leaves nothing
\* pending, so no proposal outlives the admin who made it.
C35_NoStaleProposals ==
    /\ [](\A p \in Pools :
              pendingPoolAdmin[p] # ZERO
                  => latestProposal[p] = [by |-> poolAdmin[p],
                                          newAdmin |-> pendingPoolAdmin[p]])
    /\ [][\A p \in Pools :
             /\ Did("transferPoolAdmin", p)
                    => \A n \in Addresses :
                           transferPoolAdmin(p, last'.caller, n)
                               => latestProposal'[p] = [by |-> last'.caller,
                                                        newAdmin |-> n]
             /\ Did("acceptPoolAdmin", p)
                    => /\ latestProposal[p] = [by |-> poolAdmin[p],
                                               newAdmin |-> last'.caller]
                       /\ poolAdmin'[p] = last'.caller
                       /\ pendingPoolAdmin'[p] = ZERO
             /\ (last'.op = "acceptPoolAdmin" /\ last'.pool = p
                     /\ pendingPoolAdmin[p] = ZERO)
                    => last'.err # "ok"]_vars

\* A, replaced by B, tried to propose again and was refused while B's own
\* proposal of C is pending.
C35_Witness ==
    /\ last.op = "transferPoolAdmin" /\ last.err = "Unauthorized" /\ last.caller = "A"
    /\ formerAdmins[last.pool] = {"A"} /\ poolAdmin[last.pool] = "B"
    /\ pendingPoolAdmin[last.pool] = "C"
    /\ latestProposal[last.pool] = [by |-> "B", newAdmin |-> "C"]

\* C36 - Error precedence: setPoolFee by a caller who is not the admin fails
\* with Unauthorized also when the fee is above MAX_FEE, and with FeeTooHigh
\* only for the admin; transferPoolAdmin by a caller who is not the admin fails
\* with Unauthorized also when newAdmin is address(0), and with ZeroAddress
\* only for the admin; acceptPoolAdmin with nothing pending fails with
\* NoPendingAdmin whoever calls, and with NotPendingAdmin only when a transfer
\* is pending.
C36_ErrorPrecedence ==
    [][\A p \in Pools :
          /\ (last'.op = "setPoolFee" /\ last'.pool = p)
                 => \A f \in FeeInputs :
                        (f > MAX_FEE /\ setPoolFee(p, last'.caller, f))
                            => last'.err = IF last'.caller # poolAdmin[p]
                                           THEN "Unauthorized" ELSE "FeeTooHigh"
          /\ (last'.op = "transferPoolAdmin" /\ last'.pool = p)
                 => (transferPoolAdmin(p, last'.caller, ZERO)
                        => last'.err = IF last'.caller # poolAdmin[p]
                                       THEN "Unauthorized" ELSE "ZeroAddress")
          /\ (last'.op = "acceptPoolAdmin" /\ last'.pool = p)
                 => /\ pendingPoolAdmin[p] = ZERO => last'.err = "NoPendingAdmin"
                    /\ last'.err = "NotPendingAdmin" => pendingPoolAdmin[p] # ZERO]_vars

\* The proposed admin, not yet the admin, offered a fee (above the ceiling, as
\* every fee offered here is) and was told Unauthorized.
C36_Witness ==
    /\ last.op = "setPoolFee" /\ last.err = "Unauthorized"
    /\ pendingPoolAdmin[last.pool] = last.caller
    /\ poolAdmin[last.pool] \notin {ZERO, last.caller}

====
